---- MODULE Spec2Model ----
(***************************************************************************)
(* Model of client/src/utils/urlCitationParser.ts and of the UrlCitations  *)
(* component that consumes its output.                                     *)
(*                                                                         *)
(* JavaScript strings are sequences of one-character strings.  The values  *)
(* undefined and null of a string-typed field are the one-element          *)
(* sequences Undefined and Null, whose element is no character.            *)
(***************************************************************************)
EXTENDS Integers, Sequences, FiniteSets, TLC

VARIABLES pc, annotations, content, message, citations, out

vars == <<pc, annotations, content, message, citations, out>>

----------------------------------------------------------------------------
(* JavaScript values *)

Undefined == <<"undefined">>
Null == <<"null">>
NonString == <<"[object Object]">>

IsString(v) == v \notin {Undefined, Null, NonString}

\* ToBoolean of a value that is a string, undefined, null or an object
TruthyStr(v) == v \notin {Undefined, Null, <<>>}

\* a property read throws a TypeError on null and undefined
ReadThrows(v) == v.kind \in {"null", "undefined"}

\* ToBoolean of a value that is null, undefined or an object
Truthy(v) == v.kind \notin {"null", "undefined"}

\* an object that may carry url / title / snippet
Entry(u, t, s) == [kind |-> "object", url |-> u, title |-> t, snippet |-> s]
NullEntry == [kind |-> "null", url |-> Undefined, title |-> Undefined, snippet |-> Undefined]
UndefinedEntry == [kind |-> "undefined", url |-> Undefined, title |-> Undefined, snippet |-> Undefined]

\* the value of a field that should hold an array
ArrayOf(items) == [kind |-> "array", items |-> items]
UndefinedList == [kind |-> "undefined", items |-> <<>>]
NullList == [kind |-> "null", items |-> <<>>]
StringList == [kind |-> "string", items |-> <<>>]

\* an annotation element: the object {url_citations, url_citation, url, title, snippet}
Annotation(l, c, u, t, s) ==
    [kind |-> "object", url_citations |-> l, url_citation |-> c,
     url |-> u, title |-> t, snippet |-> s]
Primitive(k) ==
    [kind |-> k, url_citations |-> UndefinedList, url_citation |-> UndefinedEntry,
     url |-> Undefined, title |-> Undefined, snippet |-> Undefined]

\* what a function call produces: a value, or a thrown TypeError
Returned(v) == [threw |-> FALSE, value |-> v]
TypeError == [threw |-> TRUE, value |-> <<>>]
NotCalled == [threw |-> FALSE, value |-> <<>>]

UrlCitation(u, t, s) == [url |-> u, title |-> t, snippet |-> s]

----------------------------------------------------------------------------
(* extractUrlCitations *)

\* the loop state: citations, seenUrls, and whether the body threw
LoopStart == [citations |-> <<>>, seenUrls |-> {}, threw |-> FALSE]
LoopThrew(st) == [st EXCEPT !.threw = TRUE]

\* citations.push({url, title, snippet}); seenUrls.add(url)
Push(st, c) ==
    [st EXCEPT !.citations = Append(@, UrlCitation(c.url, c.title, c.snippet)),
               !.seenUrls = @ \cup {c.url}]

\* Format 1 without the test of citation.url
Format1EntryAnyUrl(st, citation) ==
    IF Truthy(citation) /\ citation.url \notin st.seenUrls
    THEN Push(st, citation)
    ELSE st

\* Format 1, one entry: if (citation && citation.url && !seenUrls.has(citation.url))
Format1Entry(st, citation) ==
    IF Truthy(citation) /\ TruthyStr(citation.url) /\ citation.url \notin st.seenUrls
    THEN Push(st, citation)
    ELSE st

RECURSIVE Format1Loop(_, _, _)
Format1Loop(st, items, j) ==
    IF j > Len(items) THEN st
    ELSE Format1Loop(Format1Entry(st, items[j]), items, j + 1)

\* Format 1: if (Array.isArray(annotation.url_citations)) for (...)
Format1(st, annotation) ==
    IF ReadThrows(annotation) THEN LoopThrew(st)
    ELSE IF annotation.url_citations.kind = "array"
         THEN Format1Loop(st, annotation.url_citations.items, 1)
         ELSE st

\* Format 2: if (annotation.url_citation && annotation.url_citation.url)
Format2(st, annotation) ==
    IF st.threw THEN st
    ELSE IF ReadThrows(annotation) THEN LoopThrew(st)
    ELSE IF Truthy(annotation.url_citation) /\ TruthyStr(annotation.url_citation.url)
              /\ annotation.url_citation.url \notin st.seenUrls
         THEN Push(st, annotation.url_citation)
         ELSE st

\* Format 3: if (annotation.url && !seenUrls.has(annotation.url))
Format3(st, annotation) ==
    IF st.threw THEN st
    ELSE IF ReadThrows(annotation) THEN LoopThrew(st)
    ELSE IF TruthyStr(annotation.url) /\ annotation.url \notin st.seenUrls
         THEN Push(st, annotation)
         ELSE st

\* the loop body without its guard against elements that are no object
AnnotationStepUnguarded(st, annotation) ==
    IF st.threw THEN st
    ELSE Format3(Format2(Format1(st, annotation), annotation), annotation)

\* the loop body with the element's own url read before its url_citation
AnnotationStepDirectFirst(st, annotation) ==
    IF st.threw THEN st
    ELSE IF ~Truthy(annotation) \/ annotation.kind # "object" THEN st
    ELSE Format2(Format3(Format1(st, annotation), annotation), annotation)

\* the body of the for loop over annotations
AnnotationStep(st, annotation) ==
    IF st.threw THEN st
    ELSE IF ~Truthy(annotation) \/ annotation.kind # "object" THEN st
    ELSE Format3(Format2(Format1(st, annotation), annotation), annotation)

RECURSIVE AnnotationLoop(_, _, _)
AnnotationLoop(st, items, i) ==
    IF i > Len(items) THEN st
    ELSE AnnotationLoop(AnnotationStep(st, items[i]), items, i + 1)

extractUrlCitations(anns) ==
    IF ~Truthy(anns) \/ anns.kind # "array" THEN Returned(<<>>)
    ELSE LET st == AnnotationLoop(LoopStart, anns.items, 1)
         IN IF st.threw THEN TypeError ELSE Returned(st.citations)

----------------------------------------------------------------------------
(* Inputs of extractUrlCitations *)

MaxAnnotations == 2

U1 == <<"h", "t", "t", "p", ":", "/", "/", "a">>
U2 == <<"h", "t", "t", "p", ":", "/", "/", "b">>
GoodUrls == {U1, U2}
FalsyUrls == {Undefined, Null, <<>>}

Bare(u) == Entry(u, Undefined, Undefined)

GoodLists == {ArrayOf(<<Bare(U1), Bare(U2)>>), ArrayOf(<<Bare(U2), Bare(U2)>>)}

\* elements whose fields are absent or hold well-formed citations
GoodElements ==
    {Annotation(l, c, u, Undefined, Undefined) :
        l \in GoodLists \cup {UndefinedList},
        c \in {Bare(u) : u \in GoodUrls} \cup {UndefinedEntry},
        u \in GoodUrls \cup {Undefined}}

\* elements that are no object, or whose fields are null, empty or ill-typed
BadElements ==
    {Primitive("null"), Primitive("undefined"), Primitive("string")}
    \cup {Annotation(l, UndefinedEntry, Undefined, Undefined, Undefined) :
            l \in {NullList, StringList, ArrayOf(<<>>),
                   ArrayOf(<<NullEntry, Bare(U1)>>),
                   ArrayOf(<<UndefinedEntry, Bare(U2)>>)}
                  \cup {ArrayOf(<<Bare(u), Bare(U2)>>) : u \in FalsyUrls}}
    \cup {Annotation(UndefinedList, c, Undefined, Undefined, Undefined) :
            c \in {NullEntry} \cup {Bare(u) : u \in FalsyUrls}}
    \cup {Annotation(UndefinedList, UndefinedEntry, u, Undefined, Undefined) :
            u \in {Null, <<>>}}

Elements == GoodElements \cup BadElements

\* every citation-like object gets a title that names its place in the input
TagEntry(e, t, s) ==
    IF e.kind = "object" THEN [e EXCEPT !.title = t, !.snippet = s] ELSE e

TagAnnotation(a, i) ==
    IF a.kind # "object" THEN a
    ELSE [a EXCEPT
            !.url_citations.items =
                [j \in DOMAIN @ |->
                    TagEntry(@[j], <<"L", ToString(i), ToString(j)>>,
                                   <<"l", ToString(i), ToString(j)>>)],
            !.url_citation = TagEntry(@, <<"C", ToString(i)>>, Undefined),
            !.title = <<"D", ToString(i)>>,
            !.snippet = <<"d", ToString(i)>>]

TagAll(items) == [i \in DOMAIN items |-> TagAnnotation(items[i], i)]

SeqsUpTo(S, n) == UNION {[1..k -> S] : k \in 0..n}

AnnotationArrays(S, n) == {ArrayOf(TagAll(items)) : items \in SeqsUpTo(S, n)}

AnnotationInputs ==
    {UndefinedList, NullList, StringList} \cup AnnotationArrays(Elements, MaxAnnotations)

NoMessage == [kind |-> "undefined", annotations |-> UndefinedList, content |-> Undefined]

----------------------------------------------------------------------------
(* Specification: one call of extractUrlCitations *)

InitExtract ==
    /\ pc = "ready"
    /\ annotations \in AnnotationInputs
    /\ content = <<>>
    /\ message = NoMessage
    /\ citations = UndefinedList
    /\ out = NotCalled

ExtractCall ==
    /\ pc = "ready"
    /\ out' = extractUrlCitations(annotations)
    /\ pc' = "extracted"
    /\ UNCHANGED <<annotations, content, message, citations>>

NextExtract == ExtractCall

SpecExtract == InitExtract /\ [][NextExtract]_vars

----------------------------------------------------------------------------
(* Properties of extractUrlCitations *)

\* the places <<element, rule, index>> of an annotations array that hold a
\* citation-like object with a non-empty url
ValidEntry(e) == e.kind = "object" /\ TruthyStr(e.url)

Occurrences(items) ==
    LET objects == {i \in DOMAIN items : items[i].kind = "object"}
    IN  UNION {
            {<<i, 1, j>> : j \in {j \in DOMAIN items[i].url_citations.items :
                                    /\ items[i].url_citations.kind = "array"
                                    /\ ValidEntry(items[i].url_citations.items[j])}}
            \cup {<<i, 2, 1>> : j \in {j \in {1} : ValidEntry(items[i].url_citation)}}
            \cup {<<i, 3, 1>> : j \in {j \in {1} : TruthyStr(items[i].url)}}
          : i \in objects}

OccurrenceSource(items, o) ==
    CASE o[2] = 1 -> items[o[1]].url_citations.items[o[3]]
      [] o[2] = 2 -> items[o[1]].url_citation
      [] o[2] = 3 -> items[o[1]]

OccurrenceCitation(items, o) ==
    LET e == OccurrenceSource(items, o) IN UrlCitation(e.url, e.title, e.snippet)

\* o1 comes before o2: earlier element, else earlier rule, else earlier in the list
Before(o1, o2) ==
    \/ o1[1] < o2[1]
    \/ o1[1] = o2[1] /\ o1[2] < o2[2]
    \/ o1[1] = o2[1] /\ o1[2] = o2[2] /\ o1[3] < o2[3]

FirstOccurrence(items, u) ==
    LET same == {o \in Occurrences(items) : OccurrenceSource(items, o).url = u}
    IN  CHOOSE o \in same : \A o2 \in same : o2 = o \/ Before(o, o2)

Extracted == pc = "extracted" /\ annotations.kind = "array"

\* C4: extractUrlCitations emits, for every url that occurs, the citation of its
\* first occurrence in the order (element, rule 1 list order, rule 2, rule 3),
\* the emitted citations are in that order, and no url is emitted twice.
C4_RuleOrderFirstWins ==
    Extracted =>
        LET items == annotations.items
            v == out.value
        IN  /\ ~out.threw
            /\ \A o \in Occurrences(items) :
                  \E k \in DOMAIN v : v[k].url = OccurrenceSource(items, o).url
            /\ \A k \in DOMAIN v :
                  /\ \E o \in Occurrences(items) : OccurrenceSource(items, o).url = v[k].url
                  /\ v[k] = OccurrenceCitation(items, FirstOccurrence(items, v[k].url))
            /\ \A k1, k2 \in DOMAIN v :
                  k1 < k2 => Before(FirstOccurrence(items, v[k1].url),
                                    FirstOccurrence(items, v[k2].url))

\* an element fired all three rules, a later duplicate was dropped
C4_Witness ==
    /\ Extracted
    /\ Len(out.value) >= 2
    /\ Cardinality(Occurrences(annotations.items)) > Len(out.value)
    /\ \E i \in DOMAIN annotations.items :
          {<<i, 1, 1>>, <<i, 2, 1>>, <<i, 3, 1>>} \subseteq Occurrences(annotations.items)
    /\ \E k \in DOMAIN out.value : FirstOccurrence(annotations.items, out.value[k].url)[2] = 3

\* C9: extractUrlCitations never throws; it returns the empty sequence when
\* annotations is no array; every citation it returns comes from a non-null
\* object with a non-empty url, and every such object's url is returned, whatever
\* null, undefined, non-object or empty elements and fields surround it.
C9_ExtractTotal ==
    pc = "extracted" =>
        /\ ~out.threw
        /\ annotations.kind # "array" => out.value = <<>>
        /\ annotations.kind = "array" =>
              /\ \A k \in DOMAIN out.value :
                    \E o \in Occurrences(annotations.items) :
                        out.value[k] = OccurrenceCitation(annotations.items, o)
              /\ \A o \in Occurrences(annotations.items) :
                    \E k \in DOMAIN out.value :
                        out.value[k].url = OccurrenceSource(annotations.items, o).url

\* an element that is no object precedes an element that contributes
C9_Witness ==
    /\ Extracted
    /\ Len(annotations.items) >= 2
    /\ annotations.items[1].kind \in {"null", "undefined", "string"}
    /\ \E o \in Occurrences(annotations.items) : o[1] = 2
    /\ Len(out.value) >= 1

----------------------------------------------------------------------------
(* String helpers *)

\* what String.prototype.trim removes
IsWhiteSpace(c) == c \in {" ", "\n", "\t", "\r"}

RECURSIVE TrimStart(_)
TrimStart(s) == IF s # <<>> /\ IsWhiteSpace(Head(s)) THEN TrimStart(Tail(s)) ELSE s

RECURSIVE TrimEnd(_)
TrimEnd(s) ==
    IF s # <<>> /\ IsWhiteSpace(s[Len(s)]) THEN TrimEnd(SubSeq(s, 1, Len(s) - 1)) ELSE s

Trim(s) == TrimEnd(TrimStart(s))

\* s.substring(from, to), both zero-based, to exclusive
Substring(s, from, to) == SubSeq(s, from + 1, to)

\* the pattern p occurs in s at the one-based index i
OccursAt(s, p, i) == i + Len(p) - 1 <= Len(s) /\ SubSeq(s, i, i + Len(p) - 1) = p

StartsWith(s, p) == OccursAt(s, p, 1)

Http == <<"h", "t", "t", "p">>

----------------------------------------------------------------------------
(* splitContentAndSources *)

Heading == <<"*", "*", "S", "o", "u", "r", "c", "e", "s", "*", "*">>

\* the fixed part of /\n\n\*\*Sources\*\*\n[\s\S]*$/
Marker == <<"\n", "\n">> \o Heading \o <<"\n">>

RECURSIVE MatchFrom(_, _)
MatchFrom(s, i) ==
    IF i > Len(s) THEN 0
    ELSE IF OccursAt(s, Marker, i) THEN i
    ELSE MatchFrom(s, i + 1)

RECURSIVE LastMatchFrom(_, _)
LastMatchFrom(s, i) ==
    IF i < 1 THEN 0
    ELSE IF OccursAt(s, Marker, i) THEN i
    ELSE LastMatchFrom(s, i - 1)

\* a match that starts at the last marker instead of the first
SourcesMatchLast(s) == LastMatchFrom(s, Len(s))

\* content.match(...): the one-based index where the match starts, 0 for no
\* match; the match is tried from left to right and runs to the end of the string
SourcesMatch(s) == MatchFrom(s, 1)

\* a split that trims the content when no sources block matches
splitContentAndSourcesTrimmed(s) ==
    LET m == SourcesMatch(s)
    IN  IF m = 0 THEN [content |-> Trim(s), sources |-> <<>>]
        ELSE LET sources == Trim(SubSeq(s, m, Len(s)))
                 cleanContent == Trim(Substring(s, 0, Len(s) - Len(sources)))
             IN  [content |-> cleanContent, sources |-> sources]

splitContentAndSources(s) ==
    LET m == SourcesMatch(s)
    IN  IF m = 0 THEN [content |-> s, sources |-> <<>>]
        ELSE LET sources == Trim(SubSeq(s, m, Len(s)))
                 cleanContent == Trim(Substring(s, 0, Len(s) - Len(sources)))
             IN  [content |-> cleanContent, sources |-> sources]

----------------------------------------------------------------------------
(* parseMarkdownSources *)

RECURSIVE IndexOfFrom(_, _, _)
IndexOfFrom(s, c, i) ==
    IF i > Len(s) THEN 0
    ELSE IF s[i] = c THEN i
    ELSE IndexOfFrom(s, c, i + 1)

NoLink == [ok |-> FALSE, title |-> <<>>, url |-> <<>>, end |-> 0]

\* /\[([^\]]+)\]\(([^)]+)\)/ tried at the one-based index i: the label runs to
\* the first "]" and the destination to the first ")", neither may be empty
LinkAt(s, i) ==
    IF s[i] # "[" THEN NoLink
    ELSE LET j == IndexOfFrom(s, "]", i + 1)
         IN  IF j = 0 \/ j = i + 1 \/ j + 1 > Len(s) \/ s[j + 1] # "(" THEN NoLink
             ELSE LET k == IndexOfFrom(s, ")", j + 2)
                  IN  IF k = 0 \/ k = j + 2 THEN NoLink
                      ELSE [ok |-> TRUE, title |-> SubSeq(s, i + 1, j - 1),
                            url |-> SubSeq(s, j + 2, k - 1), end |-> k]

\* a destination test that accepts every scheme
AcceptsAnyDestination(url) == TruthyStr(url)

\* if (url && url.startsWith('http'))
AcceptsDestination(url) == TruthyStr(url) /\ StartsWith(url, Http)

\* while ((match = markdownLinkRegex.exec(content)) !== null): p is lastIndex + 1
RECURSIVE ExecLoop(_, _, _)
ExecLoop(s, p, acc) ==
    IF p > Len(s) THEN acc
    ELSE LET match == LinkAt(s, p)
         IN  IF ~match.ok THEN ExecLoop(s, p + 1, acc)
             ELSE ExecLoop(s, match.end + 1,
                     IF AcceptsDestination(match.url)
                     THEN Append(acc, UrlCitation(match.url,
                                        IF TruthyStr(match.title) THEN match.title
                                        ELSE match.url,
                                        Undefined))
                     ELSE acc)

parseMarkdownSources(s) ==
    IF ~TruthyStr(s) THEN Returned(<<>>)
    ELSE Returned(ExecLoop(s, 1, <<>>))

----------------------------------------------------------------------------
(* extractAllUrlCitations *)

\* a merge loop that pushes every citation, seen or not
MergeStepNoDedup(st, citation) ==
    [st EXCEPT !.citations = Append(@, citation), !.seenUrls = @ \cup {citation.url}]

\* if (!seenUrls.has(citation.url)) { citations.push(citation); seenUrls.add(citation.url) }
MergeStep(st, citation) ==
    IF citation.url \in st.seenUrls THEN st
    ELSE [st EXCEPT !.citations = Append(@, citation), !.seenUrls = @ \cup {citation.url}]

RECURSIVE MergeLoop(_, _, _)
MergeLoop(st, cs, i) ==
    IF i > Len(cs) THEN st
    ELSE MergeLoop(MergeStep(st, cs[i]), cs, i + 1)

\* Approach 1: if (message.annotations) ...
FromAnnotations(st, msg) ==
    IF ~Truthy(msg.annotations) THEN st
    ELSE LET r == extractUrlCitations(msg.annotations)
         IN  IF r.threw THEN LoopThrew(st) ELSE MergeLoop(st, r.value, 1)

\* Approach 2: if (message.content && typeof message.content === 'string') ...
FromMarkdown(st, msg) ==
    IF st.threw THEN st
    ELSE IF ~(TruthyStr(msg.content) /\ IsString(msg.content)) THEN st
    ELSE LET sources == splitContentAndSources(msg.content).sources
         IN  IF ~TruthyStr(sources) THEN st
             ELSE MergeLoop(st, parseMarkdownSources(sources).value, 1)

\* the two approaches in the other order
extractAllMarkdownFirst(msg) ==
    IF ReadThrows(msg) THEN TypeError
    ELSE LET st == FromAnnotations(FromMarkdown(LoopStart, msg), msg)
         IN  IF st.threw THEN TypeError ELSE Returned(st.citations)

\* message.annotations is read before anything tests message
extractAllUrlCitations(msg) ==
    IF ReadThrows(msg) THEN TypeError
    ELSE LET st == FromMarkdown(FromAnnotations(LoopStart, msg), msg)
         IN  IF st.threw THEN TypeError ELSE Returned(st.citations)

----------------------------------------------------------------------------
(* Inputs that are message texts *)

MaxSplitFragments == 5
MaxLinkFragments == 4

NL == <<"\n">>
LinkA == <<"[", "A", "]", "(">> \o U1 \o <<")">>

RECURSIVE Concat(_)
Concat(fs) == IF fs = <<>> THEN <<>> ELSE Head(fs) \o Concat(Tail(fs))

Texts(fragments, n) == {Concat(fs) : fs \in SeqsUpTo(fragments, n)}

\* texts with whole and broken sources markers
SplitFragments == {NL, Heading, Marker, LinkA}

FileUrl == <<"f", "i", "l", "e", ":", "/", "/", "/", "x">>

\* texts with whole and broken markdown links
LinkFragments ==
    {LinkA, <<"[", "A", "]">>, <<"(">> \o U2 \o <<")">>, <<"(">> \o FileUrl \o <<")">>,
     <<"[">>, <<"]">>, <<"(">>}

\* "[F](file:///x) [H](https://h.com)"
NonHttpExample ==
    <<"[", "F", "]", "(">> \o FileUrl \o <<")", " ", "[", "H", "]", "(">>
    \o <<"h", "t", "t", "p", "s", ":", "/", "/", "h", ".", "c", "o", "m", ")">>

ContentInputs ==
    Texts(SplitFragments, MaxSplitFragments) \cup Texts(LinkFragments, MaxLinkFragments)
    \cup {NonHttpExample}

Message(a, c) == [kind |-> "object", annotations |-> a, content |-> c]

----------------------------------------------------------------------------
(* Specification: one call of one of the functions that take the text *)

InitContent ==
    /\ pc = "ready"
    /\ annotations = UndefinedList
    /\ content \in ContentInputs
    /\ message = Message(UndefinedList, content)
    /\ citations = UndefinedList
    /\ out = NotCalled

SplitCall ==
    /\ pc = "ready"
    /\ out' = Returned(splitContentAndSources(content))
    /\ pc' = "split"
    /\ UNCHANGED <<annotations, content, message, citations>>

ParseCall ==
    /\ pc = "ready"
    /\ out' = parseMarkdownSources(content)
    /\ pc' = "parsed"
    /\ UNCHANGED <<annotations, content, message, citations>>

AggregateCall ==
    /\ pc = "ready"
    /\ out' = extractAllUrlCitations(message)
    /\ pc' = "aggregated"
    /\ UNCHANGED <<annotations, content, message, citations>>

NextContent == SplitCall \/ ParseCall \/ AggregateCall

SpecContent == InitContent /\ [][NextContent]_vars

----------------------------------------------------------------------------
(* Properties of splitContentAndSources *)

\* the indexes where a blank line is followed by a line that is exactly **Sources**
HeadingLines(s) ==
    {i \in 1..Len(s) :
        /\ OccursAt(s, <<"\n", "\n">> \o Heading, i)
        /\ i + 13 > Len(s) \/ s[i + 13] = "\n"}

\* the indexes where the pattern of the split can match: the line is ended by a newline
MarkerIndexes(s) == {i \in 1..Len(s) : OccursAt(s, Marker, i)}

Least(S) == CHOOSE i \in S : \A j \in S : i <= j
Greatest(S) == CHOOSE i \in S : \A j \in S : j <= i

IsPrefix(p, s) == Len(p) <= Len(s) /\ SubSeq(s, 1, Len(p)) = p

\* C5, as claimed: with two or more marker lines the sources start at the LAST
\* one and everything before it is the content.
C5_LastMarker ==
    (pc = "split" /\ Cardinality(HeadingLines(content)) >= 2) =>
        LET last == Greatest(HeadingLines(content))
        IN  /\ out.value.sources = Trim(SubSeq(content, last, Len(content)))
            /\ out.value.content = Trim(SubSeq(content, 1, last - 1))

\* C5, amended: the sources start at the FIRST marker (blank line, **Sources**,
\* newline) and run to the end of the string, trimmed, so every later marker is
\* part of the sources; the trimmed text before the first marker starts the content.
C5_FirstMarker ==
    (pc = "split" /\ MarkerIndexes(content) # {}) =>
        LET first == Least(MarkerIndexes(content))
        IN  /\ out.value.sources = Trim(SubSeq(content, first, Len(content)))
            /\ \A i \in MarkerIndexes(content) :
                  i > first => \E k \in 1..Len(out.value.sources) :
                                  OccursAt(out.value.sources, <<"\n", "\n">> \o Heading, k)
            /\ IsPrefix(Trim(SubSeq(content, 1, first - 1)), out.value.content)

\* two markers with text before, between and after them
C5_Witness ==
    /\ pc = "split"
    /\ Cardinality(MarkerIndexes(content)) >= 2
    /\ Least(MarkerIndexes(content)) > 1
    /\ Len(out.value.sources) > Len(content) - Greatest(MarkerIndexes(content))
    /\ out.value.content # <<>>

\* C6: when a sources block is present, sources is the block trimmed and content
\* is everything before the block trimmed, so content holds no character of the block.
C6_SplitAtBlock ==
    (pc = "split" /\ MarkerIndexes(content) # {}) =>
        LET first == Least(MarkerIndexes(content))
        IN  /\ out.value.sources = Trim(SubSeq(content, first, Len(content)))
            /\ out.value.content = Trim(SubSeq(content, 1, first - 1))

\* C7: without a blank-line-preceded **Sources** line the split returns the input
\* unchanged with empty sources, and extractAllUrlCitations takes no citation
\* from the markdown links of such a content.
C7_NoMarkerUnchanged ==
    HeadingLines(content) = {} =>
        /\ pc = "split" => out.value = [content |-> content, sources |-> <<>>]
        /\ pc = "aggregated" => ~out.threw /\ out.value = <<>>

\* an untrimmed content with a link and a heading that no blank line precedes
C7_Witness ==
    /\ pc = "split"
    /\ HeadingLines(content) = {}
    /\ \E i \in 1..Len(content) : OccursAt(content, <<"\n">> \o Heading \o <<"\n">>, i)
    /\ parseMarkdownSources(content).value # <<>>
    /\ Trim(content) # content
    /\ out.value.content = content

----------------------------------------------------------------------------
(* Properties of parseMarkdownSources *)

Positions(s, c) == {i \in 1..Len(s) : s[i] = c}

\* <<i, j, k>>: "[" at i, a non-empty label without "]", "](" at j, a non-empty
\* destination without ")", ")" at k
LinkSpans(s) ==
    {sp \in Positions(s, "[") \X Positions(s, "]") \X Positions(s, ")") :
        /\ sp[1] + 1 < sp[2]
        /\ \A x \in (sp[1] + 1)..(sp[2] - 1) : s[x] # "]"
        /\ sp[2] + 1 <= Len(s) /\ s[sp[2] + 1] = "("
        /\ sp[2] + 2 < sp[3]
        /\ \A x \in (sp[2] + 2)..(sp[3] - 1) : s[x] # ")"}

\* the links a left-to-right scan finds: those that do not start inside a
\* found link that starts earlier
ScannedLinks(s) ==
    CHOOSE S \in SUBSET LinkSpans(s) :
        \A sp \in LinkSpans(s) :
            sp \in S <=> ~\E q \in S : q[1] < sp[1] /\ sp[1] <= q[3]

Label(s, sp) == SubSeq(s, sp[1] + 1, sp[2] - 1)
Destination(s, sp) == SubSeq(s, sp[2] + 2, sp[3] - 1)

HttpLinks(s) ==
    {sp \in ScannedLinks(s) :
        Len(Destination(s, sp)) >= 4 /\ SubSeq(Destination(s, sp), 1, 4) = Http}

EmptyLabelLinks(s) ==
    {e \in Positions(s, "[") \X Positions(s, ")") :
        /\ OccursAt(s, <<"[", "]", "(">>, e[1])
        /\ e[1] + 3 < e[2]
        /\ \A x \in (e[1] + 3)..(e[2] - 1) : s[x] # ")"
        /\ OccursAt(s, Http, e[1] + 3)
        /\ ~\E q \in ScannedLinks(s) : q[1] <= e[1] /\ e[1] <= q[3]}

\* C11: a link with an empty label and a destination that begins with "http"
\* produces a citation whose url and title are both the destination.
C11_EmptyLabelTitle ==
    pc = "parsed" =>
        \A e \in EmptyLabelLinks(content) :
            LET destination == SubSeq(content, e[1] + 3, e[2] - 1)
            IN  \E k \in DOMAIN out.value :
                    /\ out.value[k].url = destination
                    /\ out.value[k].title = destination

----------------------------------------------------------------------------
(* Specification: one call of extractAllUrlCitations *)

MaxMsgAnnotations == 2
MaxMsgFragments == 3

U3 == <<"h", "t", "t", "p", ":", "/", "/", "c">>
LinkB == <<"[", "B", "]", "(">> \o U1 \o <<")">>
LinkC == <<"[", "C", "]", "(">> \o U3 \o <<")">>

MsgFragments == {Marker, LinkA, LinkB, LinkC, NL}

MsgElements ==
    {Primitive("null"),
     Annotation(ArrayOf(<<Bare(U1), Bare(U2)>>), UndefinedEntry, Undefined, Undefined, Undefined),
     Annotation(UndefinedList, Bare(U1), Undefined, Undefined, Undefined),
     Annotation(ArrayOf(<<Bare(U2)>>), Bare(U2), U1, Undefined, Undefined)}

MsgAnnotationInputs ==
    {UndefinedList, NullList, StringList} \cup AnnotationArrays(MsgElements, MaxMsgAnnotations)

MsgContentInputs ==
    {Undefined, Null, NonString} \cup Texts(MsgFragments, MaxMsgFragments)

NullMessage == [kind |-> "null", annotations |-> UndefinedList, content |-> Undefined]

MessageInputs ==
    {NoMessage, NullMessage}
    \cup {Message(a, c) : a \in MsgAnnotationInputs, c \in MsgContentInputs}

InitAll ==
    /\ pc = "ready"
    /\ message \in MessageInputs
    /\ annotations = message.annotations
    /\ content = message.content
    /\ citations = UndefinedList
    /\ out = NotCalled

NextAll == AggregateCall

SpecAll == InitAll /\ [][NextAll]_vars

----------------------------------------------------------------------------
(* Properties of extractAllUrlCitations *)

\* C1: extractAllUrlCitations never raises an error, and for a null or
\* undefined message it returns the empty sequence.
C1_NeverThrows ==
    pc = "aggregated" =>
        /\ ~out.threw
        /\ message.kind \in {"null", "undefined"} => out.value = <<>>

Aggregated == pc = "aggregated" /\ message.kind = "object"

\* extractUrlCitations(message.annotations)
AnnotationCitations == extractUrlCitations(message.annotations).value

\* parseMarkdownSources(sources block of message.content)
MarkdownCitations ==
    IF IsString(message.content)
    THEN parseMarkdownSources(splitContentAndSources(message.content).sources).value
    ELSE <<>>

Urls(cs) == {cs[k].url : k \in DOMAIN cs}

\* C2: the output holds each url at most once, every url of the annotations and
\* of the sources block is in it, and each entry is the first occurrence of its
\* url in the order annotations, then markdown links; a url that the annotations
\* carry with a snippet keeps that snippet.
C2_UniqueFirstWins ==
    Aggregated =>
        LET all == AnnotationCitations \o MarkdownCitations
            v == out.value
        IN  /\ ~out.threw
            /\ \A k1, k2 \in DOMAIN v : v[k1].url = v[k2].url => k1 = k2
            /\ Urls(v) = Urls(all)
            /\ \A k \in DOMAIN v :
                  \E i \in DOMAIN all :
                      /\ v[k] = all[i]
                      /\ \A i2 \in 1..(i - 1) : all[i2].url # v[k].url
            /\ \A a \in DOMAIN AnnotationCitations :
                  \A k \in DOMAIN v :
                      v[k].url = AnnotationCitations[a].url
                          => v[k].snippet = AnnotationCitations[a].snippet

\* a url with a snippet in the annotations and without one in the sources block
C2_Witness ==
    /\ Aggregated
    /\ \E a \in DOMAIN AnnotationCitations :
          /\ AnnotationCitations[a].snippet # Undefined
          /\ AnnotationCitations[a].url \in Urls(MarkdownCitations)
          /\ Cardinality({k \in DOMAIN out.value :
                            out.value[k].url = AnnotationCitations[a].url}) = 1
    /\ Len(MarkdownCitations) >= 2

\* C3: the output is extractUrlCitations(message.annotations), followed by the
\* citations of parseMarkdownSources(sources block) whose url is not yet
\* present, each part in its own order.
C3_AnnotationsThenMarkdown ==
    Aggregated =>
        LET ann == AnnotationCitations
            md == MarkdownCitations
            new == {k \in DOMAIN md :
                      /\ md[k].url \notin Urls(ann)
                      /\ \A k2 \in 1..(k - 1) : md[k2].url # md[k].url}
            v == out.value
        IN  /\ ~out.threw
            /\ Len(v) = Len(ann) + Cardinality(new)
            /\ SubSeq(v, 1, Len(ann)) = ann
            /\ \A k \in new :
                  v[Len(ann) + Cardinality({k2 \in new : k2 <= k})] = md[k]

\* annotations and sources block both contribute, one markdown link is dropped
C3_Witness ==
    /\ Aggregated
    /\ Len(AnnotationCitations) >= 2
    /\ Len(out.value) > Len(AnnotationCitations)
    /\ Len(out.value) < Len(AnnotationCitations) + Len(MarkdownCitations)

----------------------------------------------------------------------------
(* The UrlCitations component *)

\* .slice(0, 10)
SliceLimit == 10

SourceLabel == <<"S", "o", "u", "r", "c", "e">>

\* (c) => typeof c === 'object' && !!c.url; typeof null is 'object'
FilterStep(st, c) ==
    IF st.threw THEN st
    ELSE IF c.kind \notin {"object", "null"} THEN st
    ELSE IF ReadThrows(c) THEN LoopThrew(st)
    ELSE IF TruthyStr(c.url) THEN [st EXCEPT !.citations = Append(@, c)]
    ELSE st

RECURSIVE FilterLoop(_, _, _)
FilterLoop(st, items, i) ==
    IF i > Len(items) THEN st
    ELSE FilterLoop(FilterStep(st, items[i]), items, i + 1)

\* citations = [] by default; citations.filter(...).slice(0, 10)
validCitations(cs) ==
    LET list == IF cs.kind = "undefined" THEN <<>> ELSE cs.items
        st == FilterLoop(LoopStart, list, 1)
    IN  IF st.threw THEN TypeError
        ELSE Returned(SubSeq(st.citations, 1,
                             IF Len(st.citations) < SliceLimit THEN Len(st.citations)
                             ELSE SliceLimit))

\* one <li>: the link, its label and the optional snippet line
RenderedLink(c) ==
    [href |-> c.url,
     label |-> IF TruthyStr(c.title) THEN c.title ELSE SourceLabel,
     snippet |-> IF TruthyStr(c.snippet) THEN c.snippet ELSE <<>>]

NothingRendered == [rendered |-> FALSE, links |-> <<>>]

\* the component: null when no valid citation remains, else the list of links
UrlCitations(cs) ==
    LET valid == validCitations(cs)
    IN  IF valid.threw THEN TypeError
        ELSE IF Len(valid.value) = 0 THEN Returned(NothingRendered)
        ELSE Returned([rendered |-> TRUE,
                       links |-> [k \in DOMAIN valid.value |-> RenderedLink(valid.value[k])]])

----------------------------------------------------------------------------
(* Specification: one render of UrlCitations *)

MaxMixed == 2
MaxValidTail == 11

MixedEntries == {NullEntry, UndefinedEntry, Bare(<<>>), Bare(U1)}

\* an entry with a url keeps it distinct: the url and the title name the index
TagCitation(e, i) ==
    IF ValidEntry(e)
    THEN Entry(e.url \o <<"/", ToString(i)>>, <<"T", ToString(i)>>, Undefined)
    ELSE e

CitationLists ==
    {ArrayOf([i \in 1..(Len(prefix) + n) |->
                TagCitation(IF i <= Len(prefix) THEN prefix[i] ELSE Bare(U1), i)]) :
        prefix \in SeqsUpTo(MixedEntries, MaxMixed), n \in 0..MaxValidTail}

InitView ==
    /\ pc = "ready"
    /\ citations \in {UndefinedList} \cup CitationLists
    /\ annotations = UndefinedList
    /\ content = <<>>
    /\ message = NoMessage
    /\ out = NotCalled

Render ==
    /\ pc = "ready"
    /\ out' = UrlCitations(citations)
    /\ pc' = "rendered"
    /\ UNCHANGED <<annotations, content, message, citations>>

NextView == Render

SpecView == InitView /\ [][NextView]_vars

\* the indexes of the entries that are non-null objects with a non-empty url
ValidIndexes == {i \in DOMAIN citations.items : ValidEntry(citations.items[i])}

\* C10: UrlCitations never fails; it displays the first 10, in input order, of
\* the entries that are non-null objects with a non-empty url, and renders
\* nothing when there is none.
C10_DisplaysFirstTen ==
    pc = "rendered" =>
        /\ ~out.threw
        /\ out.value.rendered <=> ValidIndexes # {}
        /\ Len(out.value.links) =
              (IF Cardinality(ValidIndexes) < 10 THEN Cardinality(ValidIndexes) ELSE 10)
        /\ \A i \in ValidIndexes :
              LET k == Cardinality({i2 \in ValidIndexes : i2 <= i})
              IN  k <= 10 => out.value.links[k].href = citations.items[i].url

----------------------------------------------------------------------------
(* Specification: one call of one of the three operations that produce citations *)

MaxCoreAnnotations == 1
MaxCoreFragments == 5

\* texts with empty and non-empty destinations, inside and outside a sources block
CoreFragments == {Marker, LinkA, <<"[", "A", "]">>, <<"(">>, <<")">>}

CoreAnnotationInputs ==
    {UndefinedList, NullList, StringList} \cup AnnotationArrays(Elements, MaxCoreAnnotations)

InitCore ==
    /\ pc = "ready"
    /\ \/ annotations \in CoreAnnotationInputs /\ content = Undefined
       \/ annotations = UndefinedList /\ content \in Texts(CoreFragments, MaxCoreFragments)
    /\ message = Message(annotations, content)
    /\ citations = UndefinedList
    /\ out = NotCalled

NextCore == ExtractCall \/ ParseCall \/ AggregateCall

SpecCore == InitCore /\ [][NextCore]_vars

\* C12: every citation that extractUrlCitations, parseMarkdownSources or
\* extractAllUrlCitations returns has a url that is present and not empty.
C12_NonEmptyUrls ==
    pc \in {"extracted", "parsed", "aggregated"} =>
        \A k \in DOMAIN out.value :
            /\ out.value[k].url \notin {Undefined, Null}
            /\ Len(out.value[k].url) > 0

\* citation-like objects with a missing, null or empty url next to one that is emitted
C12_Witness ==
    /\ pc = "extracted"
    /\ annotations.kind = "array"
    /\ \E i \in DOMAIN annotations.items :
          /\ annotations.items[i].url_citations.kind = "array"
          /\ \E j \in DOMAIN annotations.items[i].url_citations.items :
                /\ annotations.items[i].url_citations.items[j].kind = "object"
                /\ annotations.items[i].url_citations.items[j].url \in FalsyUrls
    /\ Len(out.value) >= 1

====
